---- MODULE Spec2Model ----
(***************************************************************************)
(* Request resolution of the assignment solver (src/api/app.py): the       *)
(* POST /api/ handler solve_assignment and the three stages it calls in    *)
(* order, get_predefined_answer, process_file and get_llm_answer.          *)
(*                                                                         *)
(* Python str values are TLA+ strings; the str methods the handler uses    *)
(* (lower, upper, strip, split, replace, splitlines, `in`, <=) are         *)
(* operators that compute character by character.                          *)
(***************************************************************************)
EXTENDS Integers, Sequences, FiniteSets, TLC

VARIABLES pc, question, file, invoked, prompt, response

vars == <<pc, question, file, invoked, prompt, response>>

-----------------------------------------------------------------------------
(* Python str primitives                                                   *)

\* the printable ASCII characters from 35 (#) to 91 ([), in code-point order
ASCII_35_91 == "#$%&'()*+,-./0123456789:;<=>?@ABCDEFGHIJKLMNOPQRSTUVWXYZ["

\* the printable ASCII characters from 93 (]) to 95 (_), in code-point order
ASCII_93_95 == "]^_"

\* the printable ASCII characters from 97 (a) to 126 (~), in code-point order
ASCII_97_126 == "abcdefghijklmnopqrstuvwxyz{|}~"

UPPERCASE == "ABCDEFGHIJKLMNOPQRSTUVWXYZ"

LOWERCASE == "abcdefghijklmnopqrstuvwxyz"

Char(s, i) == SubSeq(s, i, i)

\* the 1-based position of the character c in the string s, 0 when absent
Position[c \in STRING, s \in STRING] ==
  IF \E i \in 1..Len(s) : Char(s, i) = c
  THEN CHOOSE i \in 1..Len(s) : Char(s, i) = c
  ELSE 0

\* ord(c) of a printable ASCII character other than the double quote, the
\* backslash and the backquote
Ord[c \in STRING] ==
  IF c = " " THEN 32
  ELSE IF c = "!" THEN 33
  ELSE IF Position[c, ASCII_35_91] > 0 THEN 34 + Position[c, ASCII_35_91]
  ELSE IF Position[c, ASCII_93_95] > 0 THEN 92 + Position[c, ASCII_93_95]
  ELSE 96 + Position[c, ASCII_97_126]

\* the upper-case letters
UpperSet == {Char(UPPERCASE, i) : i \in 1..Len(UPPERCASE)}

\* the lower-case letters
LowerSet == {Char(LOWERCASE, i) : i \in 1..Len(LOWERCASE)}

\* c.lower() of one character
LowerChar(c) == IF c \in UpperSet THEN Char(LOWERCASE, Ord[c] - 64) ELSE c

\* c.upper() of one character
UpperChar(c) == IF c \in LowerSet THEN Char(UPPERCASE, Ord[c] - 96) ELSE c

\* str.lower(): character by character, halving the string
lower[s \in STRING] ==
  IF Len(s) = 0 THEN ""
  ELSE IF Len(s) = 1 THEN LowerChar(s)
  ELSE lower[SubSeq(s, 1, Len(s) \div 2)] \o lower[SubSeq(s, (Len(s) \div 2) + 1, Len(s))]

\* str.upper(): character by character, halving the string
upper[s \in STRING] ==
  IF Len(s) = 0 THEN ""
  ELSE IF Len(s) = 1 THEN UpperChar(s)
  ELSE upper[SubSeq(s, 1, Len(s) \div 2)] \o upper[SubSeq(s, (Len(s) \div 2) + 1, Len(s))]

\* `needle in hay`
Contains[needle \in STRING, hay \in STRING] ==
  \E i \in 0..(Len(hay) - Len(needle)) : SubSeq(hay, i + 1, i + Len(needle)) = needle

-----------------------------------------------------------------------------
(* Answer Table                                                            *)

\* the dict literal, in declaration (= iteration) order
predefined_answers == <<
    [q |-> "Install and run Visual Studio Code. In your Terminal (or Command Prompt), type code -s and press Enter. Copy and paste the entire output below. What is the output of code -s?",
     a |-> "The command 'code -s' is not valid. It will likely return an error or no output."],
    [q |-> "What is the output of the command 'python --version'?",
     a |-> "Python 3.x.x"],
    [q |-> "What is the output of 'pip list' command?",
     a |-> "A list of installed Python packages and their versions"],
    [q |-> "How many unique students are there in the file?",
     a |-> "199"],
    [q |-> "What is the average score of all students?",
     a |-> "75.5"],
    [q |-> "What is the highest score in the dataset?",
     a |-> "98"],
    [q |-> "What is the lowest score in the dataset?",
     a |-> "45"],
    [q |-> "What is the total margin for transactions before Sat Mar 12 2022 10:02:11 GMT+0530 (India Standard Time) for Gamma sold in BR (which may be spelt in different ways)?",
     a |-> "0.5154"],
    [q |-> "What is the total sales value for all products in the dataset?",
     a |-> "1250000"],
    [q |-> "What is the average price of product Alpha?",
     a |-> "150.25"],
    [q |-> "How many transactions were made in the month of March 2022?",
     a |-> "250"],
    [q |-> "What is the number of successful GET requests for pages under /hindimp3/ from 18:00 until before 22:00 on Thursdays?",
     a |-> "106"],
    [q |-> "What is the total number of unique IP addresses in the log file?",
     a |-> "150"],
    [q |-> "What is the most common HTTP status code?",
     a |-> "200"],
    [q |-> "What is the average response time for POST requests?",
     a |-> "0.45"],
    [q |-> "What is the correlation coefficient between X and Y variables?",
     a |-> "0.75"],
    [q |-> "What is the R-squared value of the linear regression model?",
     a |-> "0.82"],
    [q |-> "What is the p-value for the hypothesis test?",
     a |-> "0.03"],
    [q |-> "What is the 95% confidence interval for the mean?",
     a |-> "[45.2, 54.8]"],
    [q |-> "What is the total margin for transactions before Sat Mar 12 2022 10:02:11 GMT+0530 (India Standard Time) for Gamma sold in BR ? ",
     a |-> "0.5154"]
>>

\* Optional[str]
None == [some |-> FALSE, val |-> ""]

Some(s) == [some |-> TRUE, val |-> s]

\* truthiness of an Optional[str]: None and "" are falsy
Truthy(r) == r.some /\ r.val # ""

\* predefined_question.lower() of every entry: the same at every call
lowered_questions ==
  [i \in 1..Len(predefined_answers) |-> lower[predefined_answers[i].q]]

\* the for loop of get_predefined_answer from entry i on, lq being
\* question.lower()
lookup_from[i \in Nat, lq \in STRING] ==
  IF i > Len(predefined_answers) THEN None
  ELSE IF Contains[lowered_questions[i], lq]
       THEN Some(predefined_answers[i].a)
       ELSE lookup_from[i + 1, lq]

\* the loop with the last matching entry winning
get_predefined_answer_last_match(q) ==
  LET M == {j \in 1..Len(predefined_answers) : Contains[lowered_questions[j], lower[q]]}
  IN  IF M = {} THEN None
      ELSE Some(predefined_answers[CHOOSE m \in M : \A n \in M : n <= m].a)

get_predefined_answer(q) == lookup_from[1, lower[q]]

-----------------------------------------------------------------------------
(* More str primitives, used by process_file                               *)

\* the characters str.strip() removes among those the inputs contain
Whitespace == {" ", "\t", "\r", "\n"}

lstrip[s \in STRING] ==
  IF s # "" /\ Char(s, 1) \in Whitespace THEN lstrip[SubSeq(s, 2, Len(s))] ELSE s

rstrip[s \in STRING] ==
  IF s # "" /\ Char(s, Len(s)) \in Whitespace
  THEN rstrip[SubSeq(s, 1, Len(s) - 1)]
  ELSE s

\* str.strip()
strip[s \in STRING] == rstrip[lstrip[s]]

\* s.split(sep) for a one-character separator: the list of the fields
split[s \in STRING, sep \in STRING] ==
  IF Position[sep, s] = 0 THEN <<s>>
  ELSE <<SubSeq(s, 1, Position[sep, s] - 1)>>
         \o split[SubSeq(s, Position[sep, s] + 1, Len(s)), sep]

\* s.replace(old, new) for a non-empty old: every occurrence, left to right
replace[s \in STRING, old \in STRING, new \in STRING] ==
  IF Len(s) < Len(old) THEN s
  ELSE IF SubSeq(s, 1, Len(old)) = old
       THEN new \o replace[SubSeq(s, Len(old) + 1, Len(s)), old, new]
       ELSE Char(s, 1) \o replace[SubSeq(s, 2, Len(s)), old, new]

\* s.splitlines() for text whose only line boundary is the newline: a final
\* newline ends the last line and opens no empty one
splitlines[s \in STRING] ==
  IF s = "" THEN <<>>
  ELSE IF Char(s, Len(s)) = "\n" THEN split[SubSeq(s, 1, Len(s) - 1), "\n"]
       ELSE split[s, "\n"]

\* a <= b on str: lexicographic by code point, a prefix sorts first
StrLE[a \in STRING, b \in STRING] ==
  IF a = "" THEN TRUE
  ELSE IF b = "" THEN FALSE
  ELSE IF Char(a, 1) = Char(b, 1)
       THEN StrLE[SubSeq(a, 2, Len(a)), SubSeq(b, 2, Len(b))]
       ELSE Ord[Char(a, 1)] < Ord[Char(b, 1)]

Digits == "0123456789"

IsDigits[s \in STRING] == s # "" /\ \A i \in 1..Len(s) : Position[Char(s, i), Digits] > 0

DigitsValue[s \in STRING] ==
  IF s = "" THEN 0
  ELSE 10 * DigitsValue[SubSeq(s, 1, Len(s) - 1)] + (Position[Char(s, Len(s)), Digits] - 1)

\* float(s) on the amounts the inputs contain: surrounding whitespace is
\* ignored, a run of decimal digits is its value, anything else (the empty
\* string included) raises ValueError.  Signs, fractions and exponents do not
\* occur in the inputs.
float[s \in STRING] ==
  IF IsDigits[strip[s]]
  THEN [raised |-> FALSE, val |-> DigitsValue[strip[s]], err |-> ""]
  ELSE [raised |-> TRUE, val |-> 0,
        err |-> "could not convert string to float: '" \o s \o "'"]

\* the quotient n / d rounded to the nearest integer, ties to even, n >= 0, d > 0
RoundHalfEven(n, d) ==
  IF 2 * (n % d) > d THEN (n \div d) + 1
  ELSE IF 2 * (n % d) = d THEN (n \div d) + ((n \div d) % 2)
  ELSE n \div d

Abs(n) == IF n < 0 THEN 0 - n ELSE n

\* a natural number below 10000 as four decimal digits
Pad4(n) ==
  IF n < 10 THEN "000" \o ToString(n)
  ELSE IF n < 100 THEN "00" \o ToString(n)
  ELSE IF n < 1000 THEN "0" \o ToString(n)
  ELSE ToString(n)

\* f"{margin:.4f}" for margin = num / den, den > 0: four decimals, the nearest
\* value with ties to even (the amounts of the inputs keep every tie exactly
\* representable in binary, where the exact and the float quotient round alike)
Format4f(num, den) ==
  (IF num < 0 THEN "-" ELSE "")
    \o ToString(RoundHalfEven(Abs(num) * 10000, den) \div 10000)
    \o "."
    \o Pad4(RoundHalfEven(Abs(num) * 10000, den) % 10000)

-----------------------------------------------------------------------------
(* File Interpreter: process_file                                          *)

\* An UploadFile is a record: attached (FALSE for the absent file), filename,
\* utf8 (whether its bytes decode as UTF-8) and text (the decoded content).

\* the literal the date of a row is compared with
CUTOFF == "2022-03-12T10:02:11"

\* the literal returned when no rule handles the question
SENTINEL == "File processed successfully, but no specific logic implemented for this question."

\* csv.reader on one line without quote characters: no field for an empty
\* line, else the comma-separated fields
csv_row(line) == IF line = "" THEN <<>> ELSE split[line, ","]

\* the rows csv.DictReader sees: it skips the empty ones
csv_rows(lines) ==
  SelectSeq([i \in 1..Len(lines) |-> csv_row(lines[i])], LAMBDA r : r # <<>>)

\* the last column named name in the header (dict(zip(...)) keeps the last), 0 if none
Column(fieldnames, name) ==
  IF \E i \in 1..Len(fieldnames) : fieldnames[i] = name
  THEN CHOOSE i \in 1..Len(fieldnames) :
         fieldnames[i] = name /\ \A j \in (i + 1)..Len(fieldnames) : fieldnames[j] # name
  ELSE 0

\* row[name] of a DictReader row: KeyError when the header has no such
\* column, None (restval) when the row is too short to have the field
row_get(fieldnames, row, name) ==
  IF Column(fieldnames, name) = 0
  THEN [raised |-> TRUE, exc |-> "KeyError", err |-> "'" \o name \o "'", none |-> FALSE, val |-> ""]
  ELSE IF Column(fieldnames, name) > Len(row)
  THEN [raised |-> FALSE, exc |-> "", err |-> "", none |-> TRUE, val |-> ""]
  ELSE [raised |-> FALSE, exc |-> "", err |-> "", none |-> FALSE,
        val |-> row[Column(fieldnames, name)]]

\* row[name].method(...): a str method called on None raises AttributeError
row_str(fieldnames, row, name, method) ==
  IF row_get(fieldnames, row, name).none
  THEN [raised |-> TRUE, exc |-> "AttributeError",
        err |-> "'NoneType' object has no attribute '" \o method \o "'",
        none |-> TRUE, val |-> ""]
  ELSE row_get(fieldnames, row, name)

\* the accumulators of the loop; the totals are kept in halves of a unit so
\* that sales * 0.5 stays an integer
Acc0 == [raised |-> FALSE, exc |-> "", err |-> "", total_sales2 |-> 0, total_cost2 |-> 0]

\* the values the accumulators take
AccType ==
  [raised : BOOLEAN, exc : STRING, err : STRING, total_sales2 : Int, total_cost2 : Int]

Raise(acc, e) == [acc EXCEPT !.raised = TRUE, !.exc = e.exc, !.err = e.err]

\* float(row["Sales"].replace("USD", "").strip())
row_sales(fieldnames, row) ==
  IF row_str(fieldnames, row, "Sales", "replace").raised
  THEN row_str(fieldnames, row, "Sales", "replace")
  ELSE LET f == float[strip[replace[row_str(fieldnames, row, "Sales", "replace").val, "USD", ""]]]
       IN  [raised |-> f.raised, exc |-> IF f.raised THEN "ValueError" ELSE "",
            err |-> f.err, val2 |-> 2 * f.val]

\* the cost with an absent cost counted as the whole sale
row_cost_whole_sale(fieldnames, row, sales2) ==
  LET c == row_get(fieldnames, row, "Cost") IN
  IF c.raised THEN c
  ELSE IF c.none \/ c.val = ""
  THEN [raised |-> FALSE, exc |-> "", err |-> "", val2 |-> sales2]
  ELSE LET f == float[strip[replace[c.val, "USD", ""]]]
       IN  [raised |-> f.raised, exc |-> IF f.raised THEN "ValueError" ELSE "",
            err |-> f.err, val2 |-> 2 * f.val]

\* float(row["Cost"].replace("USD", "").strip()) if row["Cost"] else sales * 0.5
row_cost(fieldnames, row, sales2) ==
  LET c == row_get(fieldnames, row, "Cost") IN
  IF c.raised THEN c
  ELSE IF c.none \/ c.val = ""
  THEN [raised |-> FALSE, exc |-> "", err |-> "", val2 |-> sales2 \div 2]
  ELSE LET f == float[strip[replace[c.val, "USD", ""]]]
       IN  [raised |-> f.raised, exc |-> IF f.raised THEN "ValueError" ELSE "",
            err |-> f.err, val2 |-> 2 * f.val]

\* the body of `for row in reader`
margin_row(fieldnames, row, acc) ==
  LET country == row_str(fieldnames, row, "Country", "strip")
      product == row_str(fieldnames, row, "Product", "split")
      date    == row_str(fieldnames, row, "Date", "strip")
      sales   == row_sales(fieldnames, row)
      cost    == row_cost(fieldnames, row, sales.val2)
  IN
  IF country.raised THEN Raise(acc, country)
  ELSE IF upper[strip[country.val]] \notin {"BR", "BRAZIL"} THEN acc
  ELSE IF product.raised THEN Raise(acc, product)
  ELSE IF lower[strip[split[product.val, "/"][1]]] # "gamma" THEN acc
  ELSE IF date.raised THEN Raise(acc, date)
  ELSE IF ~StrLE[strip[date.val], CUTOFF] THEN acc
  ELSE IF sales.raised THEN Raise(acc, sales)
  ELSE IF cost.raised THEN Raise(acc, cost)
  ELSE [acc EXCEPT !.total_sales2 = @ + sales.val2, !.total_cost2 = @ + cost.val2]

\* `for row in reader` from row i on; the first exception ends the loop
margin_loop[fieldnames \in Seq(STRING), rows \in Seq(Seq(STRING)), i \in Nat, acc \in AccType] ==
  IF acc.raised \/ i > Len(rows) THEN acc
  ELSE margin_loop[fieldnames, rows, i + 1, margin_row(fieldnames, rows[i], acc)]

\* the accumulators after the loop over the DictReader of the content
margin_totals(content) ==
  LET rows == csv_rows(splitlines[content]) IN
  IF rows = <<>> THEN Acc0
  ELSE margin_loop[rows[1], rows, 2, Acc0]

\* the branch with the division guarded: a zero total gives a zero margin
margin_rule_guarded(content) ==
  LET acc == margin_totals(content) IN
  IF acc.raised THEN [raised |-> TRUE, exc |-> acc.exc, err |-> acc.err, value |-> ""]
  ELSE IF acc.total_sales2 = 0
  THEN [raised |-> FALSE, exc |-> "", err |-> "", value |-> Format4f(0, 1)]
  ELSE [raised |-> FALSE, exc |-> "", err |-> "",
        value |-> Format4f(acc.total_sales2 - acc.total_cost2, acc.total_sales2)]

\* the aggregate-margin branch: the loop, the division and the formatting
margin_rule(content) ==
  LET acc == margin_totals(content) IN
  IF acc.raised THEN [raised |-> TRUE, exc |-> acc.exc, err |-> acc.err, value |-> ""]
  ELSE IF acc.total_sales2 = 0
  THEN [raised |-> TRUE, exc |-> "ZeroDivisionError", err |-> "division by zero", value |-> ""]
  ELSE [raised |-> FALSE, exc |-> "", err |-> "",
        value |-> Format4f(acc.total_sales2 - acc.total_cost2, acc.total_sales2)]

\* the rule test of process_file
IsMarginQuestion(q) == Contains["total margin for transactions", lower[q]]

\* the try block of process_file
process_file_try(f, q) ==
  IF ~f.utf8
  THEN [raised |-> TRUE, exc |-> "UnicodeDecodeError",
        err |-> "'utf-8' codec can't decode byte", value |-> ""]
  ELSE IF IsMarginQuestion(q) THEN margin_rule(f.text)
  ELSE [raised |-> FALSE, exc |-> "", err |-> "", value |-> SENTINEL]

\* process_file: any exception of the try block becomes HTTPException(400)
process_file(f, q) ==
  LET r == process_file_try(f, q) IN
  IF r.raised
  THEN [raised |-> TRUE, status |-> 400, cause |-> r.exc,
        detail |-> "Error processing file: " \o r.err, value |-> ""]
  ELSE [raised |-> FALSE, status |-> 200, cause |-> "", detail |-> "", value |-> r.value]

-----------------------------------------------------------------------------
(* Model Fallback: get_llm_answer                                          *)

\* the keyword test that selects the prompt
IsSqlQuestion(q) == \E keyword \in {"sql", "query", "duckdb"} : Contains[keyword, lower[q]]

\* which of the two prompt texts is sent
build_prompt(q) == IF IsSqlQuestion(q) THEN "answer-or-sql" ELSE "answer-no-sql"

\* what openai.ChatCompletion.create can do: return a message content, or
\* raise with the provider's message
ProviderOutcomes ==
  { [raised |-> FALSE, exc |-> "", text |-> "4"],
    [raised |-> FALSE, exc |-> "", text |-> " SELECT COUNT(*) FROM t;\n"],
    [raised |-> FALSE, exc |-> "", text |-> " "],
    [raised |-> TRUE, exc |-> "AuthenticationError", text |-> "Incorrect API key provided"],
    [raised |-> TRUE, exc |-> "InvalidRequestError", text |-> "The model gpt-4o-mini does not exist"],
    [raised |-> TRUE, exc |-> "APIConnectionError", text |-> "Error communicating with OpenAI"] }

\* get_llm_answer, given what the provider call does: the stripped content,
\* or the provider's exception unchanged
get_llm_answer(q, outcome) ==
  IF outcome.raised
  THEN [raised |-> TRUE, cause |-> outcome.exc, detail |-> outcome.text, value |-> ""]
  ELSE [raised |-> FALSE, cause |-> "", detail |-> "", value |-> strip[outcome.text]]

-----------------------------------------------------------------------------
(* Resolution Policy: solve_assignment                                     *)

\* the JSON body {"answer": text} with status 200
Answer(text) == [status |-> 200, body |-> "answer", text |-> text]

\* raise HTTPException(status_code=400, detail=text)
Error400(text) == [status |-> 400, body |-> "detail", text |-> text]

NoResponse == [status |-> 0, body |-> "", text |-> ""]

\* str(e) of the HTTPException process_file raises
HTTPExceptionStr(status, detail) == ToString(status) \o ": " \o detail

\* one entry of the trace of stage calls of the current request
Call(stage, yielded, raised, cause, text) ==
  [stage |-> stage, yielded |-> yielded, raised |-> raised, cause |-> cause, text |-> text]

\* the handler looking at the file before the table
first_stage_file_first(f) == IF f.attached THEN "AwaitingFile" ELSE "AwaitingTable"

\* the stage the handler starts with
first_stage(f) == "AwaitingTable"

\* Step 1 without its return: the handler goes on after a match
after_table_no_return(r, f) == IF f.attached THEN "AwaitingFile" ELSE "AwaitingModel"

\* where the handler goes after Step 1, given the lookup's result r
after_table(r, f) ==
  IF Truthy(r) THEN "Resolved"
  ELSE IF f.attached THEN "AwaitingFile"
  ELSE "AwaitingModel"

\* Step 2 with the error swallowed: the handler falls through to the model
after_file_swallowed(r) == IF r.raised THEN "AwaitingModel" ELSE "Resolved"

\* where the handler goes after Step 2, given process_file's result r
after_file(r) == IF r.raised THEN "Failed" ELSE "Resolved"

\* where the handler goes after Step 3, given get_llm_answer's result r
after_model(r) == IF r.raised THEN "Failed" ELSE "Resolved"

-----------------------------------------------------------------------------
(* The requests the handler is run on                                      *)

\* the most data rows of a tabular upload
MaxRows == 2

\* the header line of a tabular upload
Header == "Product,Country,Date,Sales,Cost"

\* the data rows the tabular uploads are made of
RowPool == <<
    "Gamma/X,BR,2022-03-01,100USD,",
    "Gamma,Brazil,2022-03-10,50USD,20USD",
    "Beta,BR,2022-03-01,70USD,10USD",
    " gamma /Z, br ,2022-03-13,40USD,30USD",
    "GAMMA,US,2022-01-01,30USD,abc",
    "Gamma,BR,2022-03-12,10USD,25USD",
    "Gamma,BRAZIL,2022-02-02,n/a,5USD" >>

\* the selections of at most MaxRows rows of the pool, in pool order
RowChoices ==
  { s \in UNION {[1..n -> 1..Len(RowPool)] : n \in 0..MaxRows} :
      \A i \in 1..(Len(s) - 1) : s[i] < s[i + 1] }

\* the chosen rows from the i-th on, one per line
CsvText[s \in Seq(Nat), i \in Nat] ==
  IF i > Len(s) THEN "" ELSE RowPool[s[i]] \o "\n" \o CsvText[s, i + 1]

TabularFiles ==
  { [attached |-> TRUE, filename |-> "sales.csv", utf8 |-> TRUE,
     text |-> Header \o "\n" \o CsvText[s, 1]] : s \in RowChoices }

\* the text upload of three "id - name: note" lines
ThreeLineFile ==
  [attached |-> TRUE, filename |-> "students.txt", utf8 |-> TRUE,
   text |-> "1 - Alice: x\n2 - Bob: y\n1 - Alice: z"]

\* a CSV upload with an "answer" column whose first data row holds 42
AnswerCsvFile ==
  [attached |-> TRUE, filename |-> "extract.csv", utf8 |-> TRUE, text |-> "answer\n42\n"]

\* a zip archive holding exactly that CSV: its bytes are not valid UTF-8
\* when the member is deflated or a header field has a byte above 0x7f, and
\* decode to the headers around the stored member otherwise
ZipFiles ==
  { [attached |-> TRUE, filename |-> "extract.zip", utf8 |-> FALSE, text |-> ""],
    [attached |-> TRUE, filename |-> "extract.zip", utf8 |-> TRUE,
     text |-> "PK extract.csv answer\n42\nPK extract.csv PK"] }

\* an upload of bytes that are not valid UTF-8
BinaryFile == [attached |-> TRUE, filename |-> "photo.png", utf8 |-> FALSE, text |-> ""]

\* the absent file
NoFile == [attached |-> FALSE, filename |-> "", utf8 |-> TRUE, text |-> ""]

Files == {NoFile, BinaryFile, ThreeLineFile, AnswerCsvFile} \cup ZipFiles \cup TabularFiles

\* the table's own question texts, verbatim
VerbatimQuestions == {predefined_answers[i].q : i \in 1..Len(predefined_answers)}

\* questions that are not keys of the table
OtherQuestions ==
  { "WHAT IS THE MOST COMMON HTTP STATUS CODE?",
    "Q3. what is the highest score in the dataset? Answer with a number.",
    "What is the lowest score in the dataset? What is the output of 'pip list' command?",
    "Compute the Total Margin for Transactions of Gamma sold in BR.",
    "How many unique students are in this file?",
    "Download and unzip the file. What is the value in the answer column of the CSV file?",
    "Write a DuckDB SQL query that counts the rows.",
    "What is 2 + 2?" }

Questions == VerbatimQuestions \cup OtherQuestions

-----------------------------------------------------------------------------
(* The handler as a state machine                                          *)

Init ==
  /\ pc = "Idle"
  /\ question = ""
  /\ file = NoFile
  /\ invoked = <<>>
  /\ prompt = ""
  /\ response = NoResponse

\* POST /api/ arrives with the form fields question and file
Receive(q, f) ==
  /\ pc = "Idle"
  /\ pc' = first_stage(f)
  /\ question' = q
  /\ file' = f
  /\ invoked' = <<>>
  /\ prompt' = ""
  /\ response' = NoResponse

\* Step 1: get_predefined_answer, returned when truthy
TableStage ==
  /\ pc = "AwaitingTable"
  /\ \E r \in {get_predefined_answer(question)} :
       \E next \in {after_table(r, file)} :
         /\ invoked' = Append(invoked, Call("table", Truthy(r), FALSE, "", r.val))
         /\ pc' = next
         /\ response' = IF next = "Resolved" THEN Answer(r.val) ELSE response
  /\ UNCHANGED <<question, file, prompt>>

\* Step 2: process_file on the attached file; its HTTPException is caught by
\* the handler's except clause and raised again as a 400 with str(e)
FileStage ==
  /\ pc = "AwaitingFile"
  /\ \E r \in {process_file(file, question)} :
       \E next \in {after_file(r)} :
         /\ invoked' = Append(invoked,
                         Call("file", ~r.raised, r.raised, r.cause,
                              IF r.raised THEN r.detail ELSE r.value))
         /\ pc' = next
         /\ response' = IF next = "Resolved" THEN Answer(r.value)
                        ELSE IF next = "Failed"
                             THEN Error400(HTTPExceptionStr(r.status, r.detail))
                             ELSE response
  /\ UNCHANGED <<question, file, prompt>>

\* Step 3: get_llm_answer; an exception of the provider call becomes a 400
\* with str(e)
ModelStage(outcome) ==
  /\ pc = "AwaitingModel"
  /\ \E r \in {get_llm_answer(question, outcome)} :
       \E next \in {after_model(r)} :
         /\ invoked' = Append(invoked,
                         Call("model", ~r.raised /\ r.value # "", r.raised, r.cause,
                              IF r.raised THEN r.detail ELSE r.value))
         /\ pc' = next
         /\ response' = IF next = "Resolved" THEN Answer(r.value)
                        ELSE IF next = "Failed" THEN Error400(r.detail)
                        ELSE response
  /\ prompt' = build_prompt(question)
  /\ UNCHANGED <<question, file>>

\* the response is sent and the request is over; nothing is kept
Respond ==
  /\ pc \in {"Resolved", "Failed"}
  /\ pc' = "Idle"
  /\ question' = ""
  /\ file' = NoFile
  /\ invoked' = <<>>
  /\ prompt' = ""
  /\ response' = NoResponse

Next ==
  \/ \E q \in Questions, f \in Files : Receive(q, f)
  \/ TableStage
  \/ FileStage
  \/ \E outcome \in ProviderOutcomes : ModelStage(outcome)
  \/ Respond

Spec == Init /\ [][Next]_vars

-----------------------------------------------------------------------------
(* Properties                                                              *)

Terminal == pc \in {"Resolved", "Failed"}

\* the position of a stage in the resolution order
StageRank(stage) == CASE stage = "table" -> 1 [] stage = "file" -> 2 [] stage = "model" -> 3

\* the last stage call of the current request
LastCall == invoked[Len(invoked)]

\* the entries whose lower-cased pattern is a substring of the lower-cased question
Matching(q) == {i \in 1..Len(predefined_answers) : Contains[lowered_questions[i], lower[q]]}

Min(S) == CHOOSE m \in S : \A n \in S : m <= n

\* C1: the stages are called in the order table, file, model, each at most
\* once; no stage is called after one that yielded a non-empty result; the
\* answer returned is the result of the last stage called; and a question
\* that matches the table and is an aggregate-margin question, sent with a
\* file, is answered from the table with no other stage called.
C1_OneStageAnswers ==
  /\ \A i, j \in 1..Len(invoked) :
       i < j => /\ ~invoked[i].yielded
                /\ StageRank(invoked[i].stage) < StageRank(invoked[j].stage)
  /\ pc = "Resolved" =>
       /\ invoked # <<>>
       /\ response = Answer(LastCall.text)
       /\ Cardinality({i \in 1..Len(invoked) : invoked[i].yielded}) <= 1
  /\ (pc \notin {"Idle", "AwaitingTable"} /\ file.attached
        /\ IsMarginQuestion(question) /\ Matching(question) # {}) =>
       /\ pc = "Resolved"
       /\ Len(invoked) = 1 /\ invoked[1].stage = "table"
       /\ response = Answer(predefined_answers[Min(Matching(question))].a)

\* C1 witness: a table question that is also an aggregate-margin question has
\* been answered with a tabular file attached
C1_Witness ==
  /\ pc = "Resolved"
  /\ question = predefined_answers[8].q
  /\ file \in TabularFiles
  /\ Len(invoked) = 1 /\ invoked[1].stage = "table" /\ invoked[1].yielded

\* C2: a finished request whose question is verbatim a key of the table has
\* the answer stored under that key as its response, whatever the file.
C2_VerbatimAnswer ==
  \A i \in 1..Len(predefined_answers) :
    (Terminal /\ question = predefined_answers[i].q) =>
      response = Answer(predefined_answers[i].a)

\* C2 witness: a verbatim key was answered while a file that does not even
\* decode was attached
C2_Witness ==
  /\ pc = "Resolved"
  /\ question = predefined_answers[4].q
  /\ file = BinaryFile
  /\ response = Answer("199")

\* C3: a stage call that raised is the last call of its request, the request
\* is Failed with a 400 detail response, and every Failed request comes from
\* a stage that raised.
C3_ErrorsEndRequest ==
  /\ \A i \in 1..Len(invoked) :
       invoked[i].raised =>
         /\ i = Len(invoked)
         /\ pc = "Failed"
         /\ response.status = 400
         /\ response.body = "detail"
  /\ pc = "Failed" => invoked # <<>> /\ LastCall.raised

\* C3 witness: process_file raised on an upload that does not decode and the
\* request failed without a model call
C3_Witness ==
  /\ pc = "Failed"
  /\ Len(invoked) = 2
  /\ invoked[2].stage = "file" /\ invoked[2].cause = "UnicodeDecodeError"
  /\ response.status = 400

\* the reasons a model-provider failure is said to be classified into
ClassifiedReasons == {"InvalidCredential", "UnsupportedModel", "Unknown"}

\* C4: a request with no table match and no file whose model call failed
\* ends with a 400 detail response that contains a classified reason.
C4_ClassifiedReason ==
  (Terminal /\ ~file.attached /\ invoked # <<>>
     /\ LastCall.stage = "model" /\ LastCall.raised) =>
    /\ response.status = 400
    /\ response.body = "detail"
    /\ \E reason \in ClassifiedReasons : Contains[reason, response.text]


-----------------------------------------------------------------------------
(* The aggregate-margin rule, stated over the rows of the file             *)

\* the data rows of a tabular text: the non-empty lines after the header
DataRows(text) ==
  IF csv_rows(splitlines[text]) = <<>> THEN <<>> ELSE Tail(csv_rows(splitlines[text]))

\* the header of a tabular text
HeaderRow(text) ==
  IF csv_rows(splitlines[text]) = <<>> THEN <<>> ELSE Head(csv_rows(splitlines[text]))

\* the field of a data row under a column name, "" when it has none
FieldOf(text, row, name) ==
  IF Column(HeaderRow(text), name) \in 1..Len(row)
  THEN row[Column(HeaderRow(text), name)]
  ELSE ""

\* a calendar date YYYY-MM-DD as the number YYYYMMDD, 0 for any other text
DateNumber(s) ==
  IF /\ Len(s) = 10
     /\ IsDigits[SubSeq(s, 1, 4)] /\ Char(s, 5) = "-"
     /\ IsDigits[SubSeq(s, 6, 7)] /\ Char(s, 8) = "-"
     /\ IsDigits[SubSeq(s, 9, 10)]
  THEN 10000 * DigitsValue[SubSeq(s, 1, 4)] + 100 * DigitsValue[SubSeq(s, 6, 7)]
         + DigitsValue[SubSeq(s, 9, 10)]
  ELSE 0

\* the day of the cutoff, Sat Mar 12 2022; a date without a time of day is
\* the start of its day
CutoffDay == 20220312

\* an amount with its "USD" suffix removed
WithoutUSD(s) ==
  IF Len(s) >= 3 /\ SubSeq(s, Len(s) - 2, Len(s)) = "USD" THEN SubSeq(s, 1, Len(s) - 3) ELSE s

\* the row is one the sums are taken over
Contributes(text, row) ==
  /\ lower[strip[split[FieldOf(text, row, "Product"), "/"][1]]] = "gamma"
  /\ upper[strip[FieldOf(text, row, "Country")]] \in {"BR", "BRAZIL"}
  /\ DateNumber(strip[FieldOf(text, row, "Date")]) \in 1..CutoffDay

Contributing(text) == {i \in 1..Len(DataRows(text)) : Contributes(text, DataRows(text)[i])}

\* the amounts of the row can be read
AmountsReadable(text, row) ==
  /\ IsDigits[WithoutUSD(FieldOf(text, row, "Sales"))]
  /\ FieldOf(text, row, "Cost") = "" \/ IsDigits[WithoutUSD(FieldOf(text, row, "Cost"))]

\* twice the sale amount of a row
Sale2(text, row) == 2 * DigitsValue[WithoutUSD(FieldOf(text, row, "Sales"))]

\* twice the cost amount of a row: half the sale when the cost is absent
Cost2(text, row) ==
  IF FieldOf(text, row, "Cost") = ""
  THEN DigitsValue[WithoutUSD(FieldOf(text, row, "Sales"))]
  ELSE 2 * DigitsValue[WithoutUSD(FieldOf(text, row, "Cost"))]

\* the sum of Sale2 over the data rows with index in S
SumSale2[text \in STRING, S \in SUBSET Nat] ==
  IF S = {} THEN 0
  ELSE Sale2(text, DataRows(text)[CHOOSE k \in S : TRUE])
         + SumSale2[text, S \ {CHOOSE k \in S : TRUE}]

\* the sum of Cost2 over the data rows with index in S
SumCost2[text \in STRING, S \in SUBSET Nat] ==
  IF S = {} THEN 0
  ELSE Cost2(text, DataRows(text)[CHOOSE k \in S : TRUE])
         + SumCost2[text, S \ {CHOOSE k \in S : TRUE}]

\* the file stage has run on a decodable file for an aggregate-margin question
MarginRuleRan ==
  /\ Len(invoked) = 2
  /\ invoked[2].stage = "file"
  /\ file.utf8
  /\ IsMarginQuestion(question)

\* C5: when the aggregate-margin rule runs on a file none of whose rows
\* passes the product, country and date filter, the request fails with a 400
\* detail response and no answer.
C5_EmptyMatchFails ==
  (MarginRuleRan /\ Contributing(file.text) = {}) =>
    /\ pc = "Failed"
    /\ LastCall.raised
    /\ response.status = 400
    /\ response.body = "detail"

\* C5 witness: the rule ran on a file with data rows none of which passes the
\* filter and the division by the zero total raised
C5_Witness ==
  /\ MarginRuleRan
  /\ file \in TabularFiles
  /\ Len(DataRows(file.text)) = 2
  /\ Contributing(file.text) = {}
  /\ LastCall.cause = "ZeroDivisionError"
  /\ pc = "Failed"

\* the two rows of the worked example
ExampleText == Header \o "\n" \o RowPool[1] \o "\n" \o RowPool[2] \o "\n"

\* C6: when the aggregate-margin rule runs on a file whose contributing rows
\* (product gamma, country BR or BRAZIL, date on or before the cutoff) have
\* readable amounts and a non-zero sales total, the answer is
\* (total_sales - total_cost) / total_sales to 4 decimals, the totals taken
\* over exactly the contributing rows, an absent cost counting as half the
\* sale; the worked example has totals 150 and 70 and the answer "0.5333".
C6_MarginOverContributingRows ==
  /\ (/\ MarginRuleRan
      /\ \A i \in Contributing(file.text) : AmountsReadable(file.text, DataRows(file.text)[i])
      /\ SumSale2[file.text, Contributing(file.text)] > 0) =>
       /\ pc = "Resolved"
       /\ response =
            Answer(Format4f(SumSale2[file.text, Contributing(file.text)]
                              - SumCost2[file.text, Contributing(file.text)],
                            SumSale2[file.text, Contributing(file.text)]))
  /\ (MarginRuleRan /\ file.text = ExampleText) =>
       /\ margin_totals(file.text).total_sales2 = 2 * 150
       /\ margin_totals(file.text).total_cost2 = 2 * 70
       /\ response = Answer("0.5333")

\* C6 witness: the rule ran on a file with a contributing row and a row that
\* is filtered out, and answered
C6_Witness ==
  /\ MarginRuleRan
  /\ pc = "Resolved"
  /\ Len(DataRows(file.text)) = 2
  /\ Cardinality(Contributing(file.text)) = 1
  /\ response.body = "answer"

\* C7: a finished request with a file, no table match and no rule for the
\* question has the sentinel text as its answer, with status 200.
C7_SentinelForUnhandled ==
  (Terminal /\ file.attached /\ ~invoked[1].yielded /\ ~IsMarginQuestion(question)) =>
    /\ response.status = 200
    /\ response.body = "answer"
    /\ Contains["no specific logic implemented", response.text]

\* the question asks for a count of distinct entities
IsUniqueCountQuestion(q) == Contains["unique", lower[q]]

\* C8: a unique-count question that the File Interpreter handles on the file
\* of the three lines "1 - Alice: x", "2 - Bob: y", "1 - Alice: z" is
\* answered "2".
C8_UniqueCount ==
  (Terminal /\ file = ThreeLineFile /\ IsUniqueCountQuestion(question)
     /\ LastCall.stage = "file") =>
    response = Answer("2")

\* C9: a zip archive holding exactly one CSV with an "answer" column whose
\* first data row is 42, sent with a question the table does not answer, is
\* answered "42".
C9_ZipCsvAnswer ==
  (Terminal /\ file \in ZipFiles /\ ~invoked[1].yielded) =>
    response = Answer("42")

\* C10: the lookup returns the answer of the earliest-declared entry whose
\* lower-cased pattern is a substring of the lower-cased question, and None
\* exactly when there is no such entry.
C10_FirstMatchWins ==
  (invoked # <<>>) =>
    /\ invoked[1].stage = "table"
    /\ IF Matching(question) = {}
       THEN ~invoked[1].yielded /\ invoked[1].text = ""
       ELSE /\ invoked[1].yielded
            /\ invoked[1].text = predefined_answers[Min(Matching(question))].a

\* C10 witness: a question containing two patterns, the later-declared one
\* first in the text, got the answer of the earlier-declared entry
C10_Witness ==
  /\ invoked # <<>>
  /\ Cardinality(Matching(question)) = 2
  /\ invoked[1].text = predefined_answers[3].a
  /\ Contains[predefined_answers[7].q, question]

====
